---- MODULE Spec2Model ----
(***************************************************************************)
(* A model of the voxel chunk store of the `blocks` client                 *)
(* (src/client/src/chunky.rs) together with the pieces of block.rs,        *)
(* identifier.rs and registry.rs that it calls, of the face culling and    *)
(* the mesh builder (block.rs, chunky.rs), and of the app states and the   *)
(* chunk generation tasks (main.rs, registry.rs, chunk_manager.rs).        *)
(*                                                                         *)
(* Spec      one Chunk under calls of add_block and remove_block;          *)
(* SpecMesh  a Chunk built by add_block calls on a column of two voxels,   *)
(*           then one call of cull_neighbors or of build_chunk_mesh;       *)
(* SpecTasks the app from AppState::LoadResources on: registry_init,       *)
(*           spawn_ex_chunk_tasks, the tasks and handle_chunk_tasks;       *)
(* SpecTasksFair  SpecTasks with a fair main thread and fair tasks;        *)
(* SpecLocalId    the cast `position as u16 + 1` of add_block, by palette  *)
(*                position;                                                *)
(* SpecIdentifier calls of Identifier::from_str, from and new;             *)
(* SpecRegistry   calls of register_block and register_item.               *)
(*                                                                         *)
(* Strings are sequences of one-character strings, so that                 *)
(* Identifier::as_string is a real concatenation.  Option<T> is a          *)
(* sequence of length 0 (None) or 1 (Some).  The palette `ids` is a        *)
(* sequence: the Rust index i is the TLA+ index i + 1, which is also the   *)
(* local id of the slot.  The voxel array `blocks` (Vec<u16> of length     *)
(* CHUNK_SIZE^3) is kept as the function from the Rust indices that hold a *)
(* non-zero local id to that id; every other index below CHUNK_VOLUME      *)
(* holds 0.                                                                *)
(***************************************************************************)
EXTENDS Integers, Sequences, FiniteSets, TLC

(***************************************************************************)
(* Program constants                                                       *)
(***************************************************************************)
CHUNK_SIZE == 16

BLOCK_Y_SHIFT == 4

BLOCK_Z_SHIFT == 8

\* 2^16: the local ids stored in `blocks` are u16
U16_MOD == 65536

\* CHUNK_SIZE.pow(3): the length of Chunk::blocks
CHUNK_VOLUME == CHUNK_SIZE * CHUNK_SIZE * CHUNK_SIZE

(***************************************************************************)
(* Bounds of the model                                                     *)
(***************************************************************************)
\* number of block types the registry holds
MaxBlockTypes == 3

\* number of coordinate triples the calls are drawn from
MaxCoords == 4

\* Some-writes are made while air_count is above CHUNK_VOLUME - MaxAirLoss
MaxAirLoss == 3

\* number of scenes (chunk position and written column) the mesh
\* specification starts from
MaxScenes == 3

\* number of chunk coordinates spawn_ex_chunk_tasks spawns a task for
MaxTasks == 3

\* the longest identifier string that is parsed
MaxIdLen == 3

\* the palette positions tried at each side of the ends of the u16 range
MaxPositions == 40

(***************************************************************************)
(* Option<T>                                                               *)
(***************************************************************************)
None == << >>

Some(v) == << v >>

IsSome(o) == Len(o) = 1

Unwrap(o) == o[1]

(***************************************************************************)
(* Identifier (identifier.rs) and Block (block.rs)                         *)
(***************************************************************************)
Identifier_new(namespace, name) == [namespace |-> namespace, name |-> name]

\* format!("{}:{}", self.namespace, self.name)
as_string(id) == id.namespace \o << ":" >> \o id.name

\* the names of the block definitions of the data directory, in load order
BlockNames ==
    << << "g" >>, << "s" >>, << "d", "1" >>, << "w" >>, << "o", "_" >> >>

\* a Block as register_block builds it; the texture rectangles play no
\* part in the chunk store
BlockOf(name) == [id |-> Identifier_new(<< "b" >>, name)]

RegisteredBlocks == { BlockOf(BlockNames[i]) : i \in 1..MaxBlockTypes }

get_identifier(block) == block.id

\* id.split(":").collect(): the pieces of str between the colons
RECURSIVE Split(_, _)
Split(str, piece) ==
    IF str = << >>
    THEN << piece >>
    ELSE IF Head(str) = ":"
         THEN << piece >> \o Split(Tail(str), << >>)
         ELSE Split(Tail(str), Append(piece, Head(str)))

\* let valid_chars = "abcdefghijklmnopqrstuvwxyz0123456789_-."
valid_chars ==
    { "a", "b", "c", "d", "e", "f", "g", "h", "i", "j", "k", "l", "m", "n",
      "o", "p", "q", "r", "s", "t", "u", "v", "w", "x", "y", "z", "0", "1",
      "2", "3", "4", "5", "6", "7", "8", "9", "_", "-", "." }

\* validate that looks at the namespace only
validate_NamespaceOnly(id) ==
    \A i \in 1..Len(id.namespace) : id.namespace[i] \in valid_chars

\* Identifier::validate is Ok(())
validate(id) ==
    /\ \A i \in 1..Len(id.namespace) : id.namespace[i] \in valid_chars
    /\ \A i \in 1..Len(id.name) : id.name[i] \in valid_chars

\* Result<Identifier, IdValidationError>
Ok(id) == [ok |-> TRUE, id |-> id]

Err(error) == [ok |-> FALSE, error |-> error]

\* Identifier::from_str
from_str(str) ==
    LET splits == Split(str, << >>)
    IN  IF Len(splits) # 2
        THEN IF Len(splits) = 1
             THEN Err("MissingColon")
             ELSE Err("TooManyColons")
        ELSE LET id == Identifier_new(splits[1], splits[2])
             IN  IF validate(id) THEN Ok(id) ELSE Err("InvalidCharacters")

\* Identifier::from(&String)
Identifier_from(str) == from_str(str)

(***************************************************************************)
(* Bit arithmetic of pos_as_index                                          *)
(***************************************************************************)
RECURSIVE BitOr(_, _)
BitOr(a, b) ==
    IF a = 0 THEN b
    ELSE IF b = 0 THEN a
    ELSE (IF (a % 2 = 1) \/ (b % 2 = 1) THEN 1 ELSE 0)
         + 2 * BitOr(a \div 2, b \div 2)

RECURSIVE Pow2(_)
Pow2(n) == IF n = 0 THEN 1 ELSE 2 * Pow2(n - 1)

\* a << n on coordinates far below the width of usize
Shl(a, n) == a * Pow2(n)

\* local_x | local_y << BLOCK_Y_SHIFT | local_z << BLOCK_Z_SHIFT
\* (<< binds tighter than |)
pos_as_index(local_x, local_y, local_z) ==
    BitOr(BitOr(local_x, Shl(local_y, BLOCK_Y_SHIFT)),
          Shl(local_z, BLOCK_Z_SHIFT))

(***************************************************************************)
(* Inputs                                                                  *)
(***************************************************************************)
InBounds(x, y, z) ==
    /\ x \in 0..(CHUNK_SIZE - 1)
    /\ y \in 0..(CHUNK_SIZE - 1)
    /\ z \in 0..(CHUNK_SIZE - 1)

\* the coordinate triples the calls use: two voxels of the chunk, a
\* coordinate whose x is outside [0, CHUNK_SIZE), one whose z is, and more
\* of both kinds
CoordList ==
    << << 0, 0, 0 >>, << 0, 1, 0 >>, << 16, 0, 0 >>, << 0, 0, 16 >>,
       << 16, 1, 0 >>, << 15, 15, 15 >>, << 0, 16, 0 >> >>

Positions == { CoordList[i] : i \in 1..MaxCoords }

OutsidePositions == { p \in Positions : ~InBounds(p[1], p[2], p[3]) }

(***************************************************************************)
(* State                                                                   *)
(***************************************************************************)
VARIABLES
    \* Chunk
    is_empty,
    air_count,
    ids,
    blocks,
    \* registry.rs: BLOCK_REGISTRY, the map from id string to Block
    BLOCK_REGISTRY,
    \* registry.rs: ITEM_REGISTRY, the map from id string to ItemDefinition
    ITEM_REGISTRY,
    \* TRUE once a call has panicked; the chunk is left as the panic found it
    panicked,
    \* the last call: its arguments and what it returned
    call,
    \* the chunk as it was when the last call started
    pre,
    \* monitor of the place / remove / place sequence
    churn,
    \* Chunk::chunk_pos, in chunks
    chunk_pos,
    \* the voxel (x, y, z) under the column of two voxels that the calls of
    \* the mesh specification write
    column,
    \* the last cull_neighbors call and its result, or None
    cull,
    \* the Mesh that build_chunk_mesh returned, or None
    mesh,
    \* iyes_loopless: the CurrentState<AppState> resource
    app_state,
    \* iyes_loopless: the NextState<AppState> resource, or None
    next_state,
    \* the system the main thread is in and its position in it
    pc,
    \* the generation task of each chunk coordinate: "none", "running",
    \* "done" (output ready), "taken" (output handed out) or "failed"
    tasks,
    \* the entity of each chunk coordinate: whether it carries ComputeChunk
    \* and how many times a Chunk and ChunkMesh were inserted
    entities,
    \* the entities whose commands handle_chunk_tasks has queued
    commands

\* the variables of one Chunk and of the calls on it
chunk_vars ==
    << is_empty, air_count, ids, blocks, call, pre, churn, chunk_pos,
       column, cull, mesh >>

\* the variables of the app states and the task scheduler
sched_vars == << app_state, next_state, pc, tasks, entities, commands >>

vars == << chunk_vars, sched_vars, BLOCK_REGISTRY, ITEM_REGISTRY, panicked >>

Snapshot ==
    [is_empty |-> is_empty, air_count |-> air_count, ids |-> ids,
     blocks |-> blocks]

\* a call record: ret is "true", "false", "panic" or "" (Chunk::new)
Call(op, x, y, z, block, ret) ==
    [op |-> op, x |-> x, y |-> y, z |-> z, block |-> block, ret |-> ret]

NoChurn == [stage |-> 0, block |-> None, len |-> 0, freed |-> FALSE]

\* the position of the main thread: the system it is in, the index of the
\* iteration of the system's loop, the entities its query has yet to visit
Pc(at, i, todo) == [at |-> at, i |-> i, todo |-> todo]

\* between two systems
Idle == Pc("idle", 0, { })

\* the chunk coordinates (x, y, z) in the order of the loops of
\* spawn_ex_chunk_tasks: z and x from size_min = -24, y = 0
TaskCoordList ==
    << << -24, 0, -24 >>, << -23, 0, -24 >>, << -22, 0, -24 >>,
       << -21, 0, -24 >> >>

TaskCoords == { TaskCoordList[i] : i \in 1..MaxTasks }

\* no entity was spawned for the coordinate
NoEntity == [compute |-> FALSE, chunk |-> 0]

\* neither cull_neighbors nor build_chunk_mesh has been called yet
Building == cull = None /\ mesh = None

(***************************************************************************)
(* The voxel array                                                         *)
(***************************************************************************)
\* self.blocks.len()
BlocksLen == CHUNK_VOLUME

\* voxels[index]
VoxelAt(voxels, index) ==
    IF index \in DOMAIN voxels THEN voxels[index] ELSE 0

\* voxels[index] = value
VoxelStore(voxels, index, value) ==
    IF value = 0
    THEN [i \in (DOMAIN voxels) \ { index } |-> voxels[i]]
    ELSE [i \in (DOMAIN voxels) \cup { index } |->
            IF i = index THEN value ELSE voxels[i]]

\* number of voxels that hold local id 0
ZeroCount(voxels) == BlocksLen - Cardinality(DOMAIN voxels)

(***************************************************************************)
(* registry.rs                                                             *)
(***************************************************************************)
\* the registry once registry_init has run register_block on every
\* definition: block_registry.insert(id.as_string(), block)
RegistryOf(blockset) ==
    [k \in { as_string(b.id) : b \in blockset } |->
        CHOOSE b \in blockset : as_string(b.id) = k]

get_block_from_registry_by_string(block_id) ==
    IF block_id \in DOMAIN BLOCK_REGISTRY
    THEN Some(BLOCK_REGISTRY[block_id])
    ELSE None

(***************************************************************************)
(* Chunk: reads                                                            *)
(***************************************************************************)
get_local_block_id(x, y, z) ==
    LET index == pos_as_index(x, y, z)
    IN  IF index < BlocksLen THEN VoxelAt(blocks, index) ELSE 0

get_block(x, y, z) ==
    LET block_id == get_local_block_id(x, y, z)
    IN  IF block_id > 0
        THEN IF IsSome(ids[block_id])
             THEN get_block_from_registry_by_string(Unwrap(ids[block_id]))
             ELSE None
        ELSE None

has_block_at(x, y, z) == get_local_block_id(x, y, z) > 0

\* local_to_world_pos: chunk_pos * CHUNK_SIZE + (x, y, z)
local_to_world_pos(x, y, z) ==
    << chunk_pos[1] * CHUNK_SIZE + x,
       chunk_pos[2] * CHUNK_SIZE + y,
       chunk_pos[3] * CHUNK_SIZE + z >>

(***************************************************************************)
(* block.rs: cull_neighbors                                                *)
(***************************************************************************)
\* enum VoxelCullCode: the six single-direction codes
VoxelCullCode == [U |-> 1, D |-> 2, R |-> 4, L |-> 8, B |-> 16, F |-> 32]

\* code & bit == bit, for a bit that is a power of two
HasBit(code, bit) == (code \div bit) % 2 = 1

\* the six if/else blocks of cull_neighbors in the order of the code: the
\* bit, the guard of the `if`, and the neighbour that has_block_at is asked
\* about when the guard holds
CullChecks(x, y, z) ==
    << [bit |-> VoxelCullCode.R, inside |-> x > 0,
        n |-> << x - 1, y, z >>],
       [bit |-> VoxelCullCode.F, inside |-> z > 0,
        n |-> << x, y, z - 1 >>],
       [bit |-> VoxelCullCode.L, inside |-> x < CHUNK_SIZE - 1,
        n |-> << x + 1, y, z >>],
       [bit |-> VoxelCullCode.B, inside |-> z < CHUNK_SIZE - 1,
        n |-> << x, y, z + 1 >>],
       [bit |-> VoxelCullCode.U, inside |-> y < CHUNK_SIZE - 1,
        n |-> << x, y + 1, z >>],
       [bit |-> VoxelCullCode.D, inside |-> y > 0,
        n |-> << x, y - 1, z >> ] >>

\* Exposed that takes a face on the chunk boundary as covered
Exposed_EdgeCovered(check) ==
    check.inside /\ ~has_block_at(check.n[1], check.n[2], check.n[3])

\* Exposed that sets the bit when the neighbour holds a block
Exposed_Inverted(check) ==
    IF check.inside
    THEN has_block_at(check.n[1], check.n[2], check.n[3])
    ELSE TRUE

\* one if/else block: is the bit OR'd into the code
Exposed(check) ==
    IF check.inside
    THEN ~has_block_at(check.n[1], check.n[2], check.n[3])
    ELSE TRUE

RECURSIVE CullFold(_, _, _)
CullFold(checks, i, code) ==
    IF i > Len(checks)
    THEN code
    ELSE CullFold(checks, i + 1,
                  IF Exposed(checks[i])
                  THEN BitOr(code, checks[i].bit)
                  ELSE code)

\* cull_neighbors whose U block asks about the voxel below
cull_neighbors_UpLooksDown(x, y, z) ==
    LET checks == CullChecks(x, y, z)
    IN  CullFold([checks EXCEPT ![5] = [checks[6] EXCEPT
                                          !.bit = VoxelCullCode.U]],
                 1, 0)

\* pub fn cull_neighbors(chunk, x, y, z) -> u8
cull_neighbors(x, y, z) == CullFold(CullChecks(x, y, z), 1, 0)

\* the coordinates that cull_neighbors(chunk, x, y, z) passes to
\* has_block_at
cull_reads(x, y, z) ==
    LET checks == CullChecks(x, y, z)
    IN  { checks[i].n : i \in { j \in 1..Len(checks) : checks[j].inside } }

(***************************************************************************)
(* block.rs: the face tables and the UVs of a Block.  Every f32 of a       *)
(* position or a normal is kept as twice its value, so that 0.5 is 1 and   *)
(* 1.0 is 2.                                                               *)
(***************************************************************************)
Vertex(position, normal) == [position |-> position, normal |-> normal]

VERTICES_TOP ==
    << Vertex(<< 1, 1, -1 >>, << 0, 2, 0 >>),
       Vertex(<< -1, 1, -1 >>, << 0, 2, 0 >>),
       Vertex(<< -1, 1, 1 >>, << 0, 2, 0 >>),
       Vertex(<< 1, 1, 1 >>, << 0, 2, 0 >>) >>

VERTICES_BOTTOM ==
    << Vertex(<< 1, -1, 1 >>, << 0, -2, 0 >>),
       Vertex(<< -1, -1, 1 >>, << 0, -2, 0 >>),
       Vertex(<< -1, -1, -1 >>, << 0, -2, 0 >>),
       Vertex(<< 1, -1, -1 >>, << 0, -2, 0 >>) >>

VERTICES_RIGHT ==
    << Vertex(<< -1, 1, 1 >>, << 2, 0, 0 >>),
       Vertex(<< -1, 1, -1 >>, << 2, 0, 0 >>),
       Vertex(<< -1, -1, -1 >>, << 2, 0, 0 >>),
       Vertex(<< -1, -1, 1 >>, << 2, 0, 0 >>) >>

VERTICES_LEFT ==
    << Vertex(<< 1, 1, -1 >>, << 2, 0, 0 >>),
       Vertex(<< 1, 1, 1 >>, << 2, 0, 0 >>),
       Vertex(<< 1, -1, 1 >>, << 2, 0, 0 >>),
       Vertex(<< 1, -1, -1 >>, << 2, 0, 0 >>) >>

VERTICES_FRONT ==
    << Vertex(<< -1, 1, -1 >>, << 0, 0, -2 >>),
       Vertex(<< 1, 1, -1 >>, << 0, 0, -2 >>),
       Vertex(<< 1, -1, -1 >>, << 0, 0, -2 >>),
       Vertex(<< -1, -1, -1 >>, << 0, 0, -2 >>) >>

VERTICES_BACK ==
    << Vertex(<< -1, -1, 1 >>, << 0, 0, 2 >>),
       Vertex(<< 1, -1, 1 >>, << 0, 0, 2 >>),
       Vertex(<< 1, 1, 1 >>, << 0, 0, 2 >>),
       Vertex(<< -1, 1, 1 >>, << 0, 0, 2 >>) >>

\* the atlas rectangle register_block stored for a face of a block; the
\* atlas is not modelled, every texture is the unit rectangle
TextureRect(block, face) == [min |-> << 0, 0 >>, max |-> << 1, 1 >>]

get_uvs_top(block) ==
    LET t == TextureRect(block, "top")
    IN  << << t.min[1], t.min[2] >>, << t.max[1], t.min[2] >>,
           << t.max[1], t.max[2] >>, << t.min[1], t.max[2] >> >>

get_uvs_bottom(block) ==
    LET t == TextureRect(block, "btm")
    IN  << << t.max[1], t.min[2] >>, << t.min[1], t.min[2] >>,
           << t.min[1], t.max[2] >>, << t.max[1], t.max[2] >> >>

get_uvs_left(block) ==
    LET t == TextureRect(block, "left")
    IN  << << t.max[1], t.min[2] >>, << t.min[1], t.min[2] >>,
           << t.min[1], t.max[2] >>, << t.max[1], t.max[2] >> >>

get_uvs_right(block) ==
    LET t == TextureRect(block, "right")
    IN  << << t.min[1], t.min[2] >>, << t.max[1], t.min[2] >>,
           << t.max[1], t.max[2] >>, << t.min[1], t.max[2] >> >>

get_uvs_front(block) ==
    LET t == TextureRect(block, "front")
    IN  << << t.max[1], t.min[2] >>, << t.min[1], t.min[2] >>,
           << t.min[1], t.max[2] >>, << t.max[1], t.max[2] >> >>

get_uvs_back(block) ==
    LET t == TextureRect(block, "back")
    IN  << << t.max[1], t.max[2] >>, << t.min[1], t.max[2] >>,
           << t.min[1], t.min[2] >>, << t.max[1], t.min[2] >> >>

(***************************************************************************)
(* Chunk::add_block, the palette                                           *)
(***************************************************************************)
\* self.ids.contains(&Some(id_string))
PaletteContains(palette, id_string) ==
    \E i \in 1..Len(palette) : palette[i] = Some(id_string)

\* PaletteInsert that never reuses a freed slot
PaletteInsert_AlwaysPush(palette, id_string) ==
    IF PaletteContains(palette, id_string)
    THEN palette
    ELSE Append(palette, Some(id_string))

\* PaletteInsert without the search for an existing entry
PaletteInsert_NoDedupe(palette, id_string) ==
    IF \E i \in 1..Len(palette) : palette[i] = None
    THEN LET index ==
                 CHOOSE i \in 1..Len(palette) :
                     /\ palette[i] = None
                     /\ \A j \in 1..(i - 1) : palette[j] # None
         IN  [palette EXCEPT ![index] = Some(id_string)]
    ELSE Append(palette, Some(id_string))

\* lines 69-88: dedupe, else fill the first None slot, else push
PaletteInsert(palette, id_string) ==
    IF PaletteContains(palette, id_string)
    THEN palette
    ELSE IF \E i \in 1..Len(palette) : palette[i] = None
         THEN LET index ==
                      CHOOSE i \in 1..Len(palette) :
                          /\ palette[i] = None
                          /\ \A j \in 1..(i - 1) : palette[j] # None
              IN  [palette EXCEPT ![index] = Some(id_string)]
         ELSE Append(palette, Some(id_string))

\* LocalIdOf without the + 1 that reserves 0 for air
LocalIdOf_NoPlusOne(palette, id_string) ==
    LET position ==
            CHOOSE i \in 1..Len(palette) :
                /\ palette[i] = Some(id_string)
                /\ \A j \in 1..(i - 1) : palette[j] # Some(id_string)
    IN  (position - 1) % U16_MOD

\* lines 91-93: `position as u16 + 1` for the 0-based position of the
\* id in the palette; the cast keeps the low 16 bits, and the result
\* U16_MOD stands for the overflow of the + 1
AsLocalId(position) == (position % U16_MOD) + 1

\* lines 91-93: position(..).unwrap() as u16 + 1
LocalIdOf(palette, id_string) ==
    LET position ==
            CHOOSE i \in 1..Len(palette) :
                /\ palette[i] = Some(id_string)
                /\ \A j \in 1..(i - 1) : palette[j] # Some(id_string)
    IN  AsLocalId(position - 1)

\* lines 93-96: what the call stores for the result of `as u16 + 1`.  The
\* sum U16_MOD is an overflow of the u16 addition: the call panics where the
\* build checks overflows (debug profile) and stores the wrapped value 0
\* where it does not (release profile).
StoreOutcomes(block_id) ==
    IF block_id < U16_MOD
    THEN { [panic |-> FALSE, id |-> block_id] }
    ELSE { [panic |-> TRUE, id |-> 0], [panic |-> FALSE, id |-> 0] }

\* lines 61-63
DecAir(count) == IF count > 0 THEN count - 1 ELSE count

\* lines 109-118: is there a voxel left with the local id just removed
HasBlockLeft(voxels, curr_block_id) ==
    IF curr_block_id = 0
    THEN ZeroCount(voxels) > 0
    ELSE \E i \in DOMAIN voxels : voxels[i] = curr_block_id

\* IsReplacing that treats every voxel as holding a block
IsReplacing_Always(x, y, z) == TRUE

\* line 99: a None-write changes the chunk only if it replaces a block
IsReplacing(x, y, z) == IsSome(get_block(x, y, z))

\* IsEmptyAfter that is off by one voxel
IsEmptyAfter_OffByOne(count) == count >= BlocksLen - 1

\* line 129: is_empty as recomputed at the end of an accepted call
IsEmptyAfter(count) == count = BlocksLen

\* line 124: the index into ids that the removal clears; U16_MOD stands
\* for the overflow of the u16 addition
FreedIndex(curr_block_id) == curr_block_id + 1

(***************************************************************************)
(* Monitor of "place A, remove it, place a different B", over the last     *)
(* calls.                                                                  *)
(* stage 1: the last call (`call`) placed a block;                         *)
(* stage 2: the last two calls placed `block` and removed it at the same   *)
(*          coordinates; len is the palette length just before the         *)
(*          removal, freed tells whether the removal cleared the last      *)
(*          voxel of its local id;                                         *)
(* stage 3: the last three calls placed A, removed it and placed B # A     *)
(*          (`call`); len and freed are those of the removal.              *)
(***************************************************************************)
ChurnNext(x, y, z, block, ret, last_of_id) ==
    IF ret # "true"
    THEN NoChurn
    ELSE IF IsSome(block)
         THEN IF churn.stage = 2 /\ block # churn.block
              THEN [churn EXCEPT !.stage = 3, !.block = None]
              ELSE [NoChurn EXCEPT !.stage = 1]
         ELSE IF /\ churn.stage \in {1, 3}
                 /\ << x, y, z >> = << call.x, call.y, call.z >>
              THEN [stage |-> 2, block |-> call.block, len |-> Len(ids),
                    freed |-> last_of_id]
              ELSE NoChurn

(***************************************************************************)
(* Chunk::add_block (lines 54-135), called as `op`.  With `record` the     *)
(* call and the chunk before it are kept in call, pre and churn.           *)
(***************************************************************************)
AddBlockStep(op, x, y, z, block, record) ==
    LET pos == pos_as_index(x, y, z)
        Done(ret, last_of_id) ==
            /\ IF record
               THEN /\ call' = Call(op, x, y, z, block, ret)
                    /\ pre' = Snapshot
                    /\ churn' = ChurnNext(x, y, z, block, ret, last_of_id)
               ELSE UNCHANGED << call, pre, churn >>
            /\ panicked' = (ret = "panic")
    IN
    /\ ~panicked
    /\ UNCHANGED << BLOCK_REGISTRY,
                    ITEM_REGISTRY, chunk_pos, column, cull, mesh,
                    sched_vars >>
    /\ IF pos < BlocksLen
       THEN IF IsSome(block)
            THEN \E id_string \in
                        { as_string(get_identifier(Unwrap(block))) } :
                     /\ air_count' = DecAir(air_count)
                     /\ ids' = PaletteInsert(ids, id_string)
                     /\ \E stored \in
                            StoreOutcomes(LocalIdOf(ids', id_string)) :
                            IF stored.panic
                            \* the voxel is not written; line 59 has run
                            THEN /\ blocks' = blocks
                                 /\ is_empty' = FALSE
                                 /\ Done("panic", FALSE)
                            ELSE /\ blocks' =
                                        VoxelStore(blocks, pos, stored.id)
                                 /\ is_empty' = IsEmptyAfter(air_count')
                                 /\ Done("true", FALSE)
            ELSE IF IsReplacing(x, y, z)
                 THEN LET curr_block_id == get_local_block_id(x, y, z)
                          new_blocks == VoxelStore(blocks, pos, 0)
                          has_block == HasBlockLeft(new_blocks, curr_block_id)
                          index == FreedIndex(curr_block_id)
                      IN  /\ air_count' = air_count + 1
                          /\ blocks' = new_blocks
                          /\ IF has_block
                             THEN /\ ids' = ids
                                  /\ is_empty' = IsEmptyAfter(air_count')
                                  /\ Done("true", FALSE)
                             ELSE IF index = U16_MOD
                                  \* `curr_block_id + 1` overflows: it
                                  \* wraps to 0, or panics
                                  THEN \/ /\ ids' = [ids EXCEPT ![1] = None]
                                          /\ is_empty' =
                                                 IsEmptyAfter(air_count')
                                          /\ Done("true", TRUE)
                                       \/ /\ ids' = ids
                                          /\ is_empty' = is_empty
                                          /\ Done("panic", TRUE)
                             ELSE IF index < Len(ids)
                                  THEN /\ ids' = [ids EXCEPT
                                                    ![index + 1] = None]
                                       /\ is_empty' =
                                              IsEmptyAfter(air_count')
                                       /\ Done("true", TRUE)
                                  \* index out of bounds: the call panics
                                  \* after the voxel was zeroed
                                  ELSE /\ ids' = ids
                                       /\ is_empty' = is_empty
                                       /\ Done("panic", TRUE)
                 ELSE /\ UNCHANGED << air_count, ids, blocks >>
                      /\ is_empty' = IsEmptyAfter(air_count)
                      /\ Done("true", FALSE)
       ELSE /\ UNCHANGED << is_empty, air_count, ids, blocks >>
            /\ Done("false", FALSE)

AddBlockCall(op, x, y, z, block) == AddBlockStep(op, x, y, z, block, TRUE)

\* pub fn add_block; a Some-write is made while air_count is above the cap
add_block(x, y, z, block) ==
    /\ IsSome(block) => air_count > CHUNK_VOLUME - MaxAirLoss
    /\ AddBlockCall("add_block", x, y, z, block)

\* pub fn remove_block: self.add_block(x, y, z, None)
remove_block(x, y, z) == AddBlockCall("remove_block", x, y, z, None)

\* a call of add_block while a chunk is built for its mesh
chunk_add_block(x, y, z, block) ==
    /\ Building
    /\ IsSome(block) => air_count > CHUNK_VOLUME - MaxAirLoss
    /\ AddBlockStep("add_block", x, y, z, block, FALSE)

(***************************************************************************)
(* chunky.rs: build_chunk_mesh and build_face.  A mesh is the record of    *)
(* its four vectors; `faces` is not part of the Mesh: it records, for each *)
(* group of four vertices, the cull bit and the voxel it was built for.    *)
(***************************************************************************)
\* registry::get_block_from_registry(&Identifier)
get_block_from_registry(block_id) ==
    get_block_from_registry_by_string(as_string(block_id))

\* pub fn index_as_pos: the coordinates of an index below CHUNK_VOLUME
index_as_pos(index) ==
    << index % CHUNK_SIZE,
       (index \div Pow2(BLOCK_Y_SHIFT)) % CHUNK_SIZE,
       (index \div Pow2(BLOCK_Z_SHIFT)) % CHUNK_SIZE >>

EmptyMesh ==
    [positions |-> << >>, normals |-> << >>, uvs |-> << >>,
     indices |-> << >>, faces |-> << >>]

\* build_face: let block_indicies = vec![0, 1, 2, 2, 3, 0]
block_indicies == << 0, 1, 2, 2, 3, 0 >>

\* block_pos + v, for a v in doubled units
Offset(block_pos, v) ==
    << 2 * block_pos[1] + v[1], 2 * block_pos[2] + v[2],
       2 * block_pos[3] + v[3] >>

\* build_face that does not add positions.len() to the indices
build_face_NoIndexOffset(m, tag, block_face, block_uvs, block_pos) ==
    [positions |-> m.positions
                   \o [i \in 1..4 |-> Offset(block_pos,
                                             block_face[i].position)],
     normals   |-> m.normals
                   \o [i \in 1..4 |-> Offset(block_pos,
                                             block_face[i].normal)],
     uvs       |-> m.uvs \o block_uvs,
     indices   |-> m.indices \o block_indicies,
     faces     |-> Append(m.faces, tag)]

\* fn build_face (lines 309-347)
build_face(m, tag, block_face, block_uvs, block_pos) ==
    LET index == Len(m.positions)
    IN  [positions |-> m.positions
                       \o [i \in 1..4 |-> Offset(block_pos,
                                                 block_face[i].position)],
         normals   |-> m.normals
                       \o [i \in 1..4 |-> Offset(block_pos,
                                                 block_face[i].normal)],
         uvs       |-> m.uvs \o block_uvs,
         indices   |-> m.indices
                       \o [k \in 1..6 |-> block_indicies[k] + index],
         faces     |-> Append(m.faces, tag)]

\* the six `if (cull_code & bit) == bit { build_face(..) }` of lines
\* 218-288, in the order of the code
FaceList(block) ==
    << [bit |-> VoxelCullCode.U, vertices |-> VERTICES_TOP,
        uvs |-> get_uvs_top(block)],
       [bit |-> VoxelCullCode.D, vertices |-> VERTICES_BOTTOM,
        uvs |-> get_uvs_bottom(block)],
       [bit |-> VoxelCullCode.R, vertices |-> VERTICES_RIGHT,
        uvs |-> get_uvs_right(block)],
       [bit |-> VoxelCullCode.L, vertices |-> VERTICES_LEFT,
        uvs |-> get_uvs_left(block)],
       [bit |-> VoxelCullCode.F, vertices |-> VERTICES_FRONT,
        uvs |-> get_uvs_front(block)],
       [bit |-> VoxelCullCode.B, vertices |-> VERTICES_BACK,
        uvs |-> get_uvs_back(block)] >>

RECURSIVE BuildFaces(_, _, _, _, _, _)
BuildFaces(m, list, i, cull_code, voxel, block_pos) ==
    IF i > Len(list)
    THEN m
    ELSE BuildFaces(
             IF HasBit(cull_code, list[i].bit)
             THEN build_face(m, [bit |-> list[i].bit, voxel |-> voxel],
                             list[i].vertices, list[i].uvs, block_pos)
             ELSE m,
             list, i + 1, cull_code, voxel, block_pos)

\* VoxelBlock that unwraps the palette slot
VoxelBlock_UnwrapSlot(index) ==
    LET slot == ids[blocks[index]]
    IN  IF IsSome(slot)
        THEN LET parsed == Identifier_from(Unwrap(slot))
             IN  IF parsed.ok
                 THEN [panic |-> FALSE,
                       block |-> get_block_from_registry(parsed.id)]
                 ELSE [panic |-> TRUE, block |-> None]
        ELSE [panic |-> TRUE, block |-> None]

\* lines 216-217 for the solid voxel at `index`: the block the faces are
\* built for, None when the two `if let` skip the voxel; panic when
\* Identifier::from(block_id).unwrap() fails
VoxelBlock(index) ==
    LET slot == ids[blocks[index]]
    IN  IF IsSome(slot)
        THEN LET parsed == Identifier_from(Unwrap(slot))
             IN  IF parsed.ok
                 THEN [panic |-> FALSE,
                       block |-> get_block_from_registry(parsed.id)]
                 ELSE [panic |-> TRUE, block |-> None]
        ELSE [panic |-> FALSE, block |-> None]

\* the position of a voxel in the loops `for z { for x { for y`
LoopOrder(index) ==
    LET p == index_as_pos(index)
    IN  (p[3] * CHUNK_SIZE + p[1]) * CHUNK_SIZE + p[2]

\* the loops of lines 199-294 over the voxels that hold a block
RECURSIVE MeshLoop(_, _)
MeshLoop(todo, m) ==
    IF todo = { }
    THEN [panic |-> FALSE, mesh |-> m]
    ELSE LET index == CHOOSE i \in todo :
                          \A j \in todo : LoopOrder(i) <= LoopOrder(j)
             p == index_as_pos(index)
             cull_code == cull_neighbors(p[1], p[2], p[3])
             block_pos == local_to_world_pos(p[1], p[2], p[3])
             found == VoxelBlock(index)
         IN  IF found.panic
             THEN [panic |-> TRUE, mesh |-> m]
             ELSE MeshLoop(todo \ { index },
                           IF IsSome(found.block)
                           THEN BuildFaces(m, FaceList(Unwrap(found.block)),
                                           1, cull_code, p, block_pos)
                           ELSE m)

\* pub fn build_chunk_mesh(chunk: &Chunk) -> Mesh
build_chunk_mesh ==
    LET built == MeshLoop(DOMAIN blocks, EmptyMesh)
    IN  /\ ~panicked
        /\ Building
        /\ mesh' = IF built.panic THEN None ELSE Some(built.mesh)
        /\ panicked' = (mesh' = None)
        /\ call' = Call("build_chunk_mesh", 0, 0, 0, None,
                        IF panicked' THEN "panic" ELSE "")
        /\ UNCHANGED << is_empty, air_count, ids, blocks, BLOCK_REGISTRY,
                        ITEM_REGISTRY,
                        pre, churn, chunk_pos, column, cull, sched_vars >>

(***************************************************************************)
(* Specification of one Chunk under calls of its interface                 *)
(***************************************************************************)
\* Chunk::new(pos)
NewChunk(pos) ==
    /\ chunk_pos = pos
    /\ is_empty = TRUE
    /\ air_count = CHUNK_VOLUME
    /\ ids = << >>
    /\ blocks = << >>
    /\ panicked = FALSE
    /\ call = Call("new", 0, 0, 0, None, "")
    /\ pre = Snapshot
    /\ churn = NoChurn
    /\ cull = None
    /\ mesh = None

\* an ItemDefinition; its item_traits play no part here
ItemDefinition(id, stack_size) == [id |-> id, stack_size |-> stack_size]

\* the item definitions that register_items_in_dir reads, in load order
ItemDefinitions ==
    << ItemDefinition(<< "b", ":", "k" >>, 1),
       ItemDefinition(<< "b", ":", "g" >>, 64) >>

\* registry::register_item: a definition whose id does not parse is
\* skipped, else the definition is inserted under id.as_string(), over any
\* earlier entry
register_item(registry, item_def) ==
    LET parsed == from_str(item_def.id)
    IN  IF parsed.ok
        THEN [k \in (DOMAIN registry) \cup { as_string(parsed.id) } |->
                IF k = as_string(parsed.id) THEN item_def ELSE registry[k]]
        ELSE registry

\* the registry that holds the item definitions of a sequence
RECURSIVE ItemRegistryOf(_, _)
ItemRegistryOf(defs, i) ==
    IF i = 0
    THEN << >>
    ELSE register_item(ItemRegistryOf(defs, i - 1), defs[i])

\* the app is in AppState::Finished: registry_init has filled the
\* registry; no generation task is followed
RegistryLoaded ==
    /\ BLOCK_REGISTRY = RegistryOf(RegisteredBlocks)
    /\ ITEM_REGISTRY = ItemRegistryOf(ItemDefinitions, Len(ItemDefinitions))
    /\ app_state = "Finished"
    /\ next_state = None
    /\ pc = Idle
    /\ tasks = [c \in TaskCoords |-> "none"]
    /\ entities = [c \in TaskCoords |-> NoEntity]
    /\ commands = { }

Init ==
    /\ NewChunk(<< 0, 0, 0 >>)
    /\ column = << 0, 0, 0 >>
    /\ RegistryLoaded

BlockArgs == { None } \cup { Some(b) : b \in RegisteredBlocks }

Next ==
    \/ \E p \in Positions, b \in BlockArgs : add_block(p[1], p[2], p[3], b)
    \/ \E p \in Positions : remove_block(p[1], p[2], p[3])

Spec == Init /\ [][Next]_vars

(***************************************************************************)
(* Specification of a chunk that is built by calls on one column of two    *)
(* voxels and then asked for a cull code or for its mesh                   *)
(***************************************************************************)
\* the chunk positions and columns the specification starts from; the
\* chunk positions are among those of spawn_ex_chunk_tasks (-24..24, 0)
SceneList ==
    << [chunk_pos |-> << 0, 0, 0 >>, column |-> << 0, 0, 0 >>],
       [chunk_pos |-> << -24, 0, 23 >>, column |-> << 15, 14, 15 >>],
       [chunk_pos |-> << 1, 0, -1 >>, column |-> << 7, 0, 3 >>],
       [chunk_pos |-> << 0, 0, 1 >>, column |-> << 15, 0, 0 >>],
       [chunk_pos |-> << 2, 0, 0 >>, column |-> << 0, 14, 15 >>] >>

Scenes == { SceneList[i] : i \in 1..MaxScenes }

\* the two voxels that are written
ColumnVoxels ==
    { column, << column[1], column[2] + 1, column[3] >> }

Steps == { << 1, 0, 0 >>, << -1, 0, 0 >>, << 0, 0, 1 >>, << 0, 0, -1 >> }

\* the voxels cull_neighbors is called on: the column and the voxels of the
\* chunk on the four sides of its lower voxel
ProbePositions ==
    { p \in ColumnVoxels
            \cup { << column[1] + d[1], column[2] + d[2],
                      column[3] + d[3] >> : d \in Steps } :
        InBounds(p[1], p[2], p[3]) }

\* a call of cull_neighbors(&chunk, x, y, z)
call_cull_neighbors(x, y, z) ==
    /\ ~panicked
    /\ Building
    /\ cull' = Some([x |-> x, y |-> y, z |-> z,
                     code |-> cull_neighbors(x, y, z),
                     reads |-> cull_reads(x, y, z)])
    /\ call' = Call("cull_neighbors", x, y, z, None, "")
    /\ UNCHANGED << is_empty, air_count, ids, blocks, BLOCK_REGISTRY,
                    ITEM_REGISTRY,
                    panicked, pre, churn, chunk_pos, column, mesh,
                    sched_vars >>

InitMesh ==
    /\ \E s \in Scenes :
           /\ NewChunk(s.chunk_pos)
           /\ column = s.column
    /\ RegistryLoaded

NextMesh ==
    \/ \E p \in ColumnVoxels, b \in BlockArgs :
           chunk_add_block(p[1], p[2], p[3], b)
    \/ \E p \in ProbePositions : call_cull_neighbors(p[1], p[2], p[3])
    \/ build_chunk_mesh

SpecMesh == InitMesh /\ [][NextMesh]_vars

(***************************************************************************)
(* The app states (main.rs, registry.rs, texture_atlas.rs) and the chunk   *)
(* generation tasks (chunk_manager.rs).  The main thread runs one system   *)
(* at a time; the tasks run on the threads of the AsyncComputeTaskPool.    *)
(***************************************************************************)
\* the id strings of the block definitions that register_blocks_in_dir
\* reads, in load order
BlockDefinitionIds ==
    [i \in 1..MaxBlockTypes |->
        as_string(Identifier_new(<< "b" >>, BlockNames[i]))]

\* the id the generation tasks look up ("blocky:grass_block")
GrassBlockId == BlockDefinitionIds[1]

\* registry::register_block: a definition whose id does not parse is
\* skipped, else the Block is inserted under id.as_string(), over any
\* earlier entry
register_block(registry, def_id) ==
    LET parsed == from_str(def_id)
    IN  IF parsed.ok
        THEN [k \in (DOMAIN registry) \cup { as_string(parsed.id) } |->
                IF k = as_string(parsed.id)
                THEN [id |-> parsed.id]
                ELSE registry[k]]
        ELSE registry

\* ExitSpawns that runs spawn_ex_chunk_tasks on the exit of LoadResources
ExitSpawns_LoadResources(state) == state = "LoadResources"

\* main.rs:102-110: spawn_ex_chunk_tasks is an exit system of
\* AppState::Registry
ExitSpawns(state) == state = "Registry"

\* QueueIntegration that drops the commands
QueueIntegration_Dropped(queue, c) == queue

\* QueueIntegration that also queues the entities whose task still runs
QueueIntegration_Running(queue, c) ==
    queue \cup { c } \cup { d \in TaskCoords : tasks[d] = "running" }

\* chunk_manager.rs:73-86: the commands on the entity are queued
QueueIntegration(queue, c) == queue \cup { c }

\* the state changes to `state` and its enter systems start:
\* registry_init is the enter system of AppState::Registry
EnterState(state) ==
    /\ app_state' = state
    /\ next_state' = None
    /\ pc' = IF state = "Registry" THEN Pc("registry_init", 1, { }) ELSE Idle

\* texture_atlas.rs:138: once the atlases are built, the system that runs
\* in AppState::LoadResources asks for AppState::Registry
build_texture_atlas ==
    /\ ~panicked
    /\ pc = Idle
    /\ app_state = "LoadResources"
    /\ next_state = None
    /\ next_state' = Some("Registry")
    /\ UNCHANGED << chunk_vars, BLOCK_REGISTRY,
                    ITEM_REGISTRY, panicked, app_state, pc,
                    tasks, entities, commands >>

\* the state transition: the exit systems of the current state run first
state_transition ==
    /\ ~panicked
    /\ pc = Idle
    /\ IsSome(next_state)
    /\ IF ExitSpawns(app_state)
       THEN /\ pc' = Pc("spawn_ex_chunk_tasks", 1, { })
            /\ UNCHANGED << app_state, next_state >>
       ELSE EnterState(Unwrap(next_state))
    /\ UNCHANGED << chunk_vars, BLOCK_REGISTRY,
                    ITEM_REGISTRY, panicked, tasks, entities,
                    commands >>

\* registry_init: one register_item of register_items_in_dir, which runs
\* before register_blocks_in_dir
registry_init_register_item ==
    /\ ~panicked
    /\ pc.at = "registry_init"
    /\ pc.i <= Len(ItemDefinitions)
    /\ ITEM_REGISTRY' = register_item(ITEM_REGISTRY, ItemDefinitions[pc.i])
    /\ pc' = [pc EXCEPT !.i = @ + 1]
    /\ UNCHANGED << chunk_vars, BLOCK_REGISTRY, panicked, app_state,
                    next_state, tasks, entities, commands >>

\* registry_init: one register_block of register_blocks_in_dir
registry_init_register ==
    /\ ~panicked
    /\ pc.at = "registry_init"
    /\ pc.i > Len(ItemDefinitions)
    /\ pc.i <= Len(ItemDefinitions) + Len(BlockDefinitionIds)
    /\ BLOCK_REGISTRY' =
           register_block(BLOCK_REGISTRY,
                          BlockDefinitionIds[pc.i - Len(ItemDefinitions)])
    /\ pc' = [pc EXCEPT !.i = @ + 1]
    /\ UNCHANGED << chunk_vars, ITEM_REGISTRY, panicked, app_state,
                    next_state, tasks, entities, commands >>

\* registry_init: commands.insert_resource(NextState(AppState::Finished))
registry_init ==
    /\ ~panicked
    /\ pc.at = "registry_init"
    /\ pc.i > Len(ItemDefinitions) + Len(BlockDefinitionIds)
    /\ next_state' = Some("Finished")
    /\ pc' = Idle
    /\ UNCHANGED << chunk_vars, BLOCK_REGISTRY,
                    ITEM_REGISTRY, panicked, app_state, tasks,
                    entities, commands >>

\* spawn_ex_chunk_tasks: one iteration of its loops; the task starts on
\* the pool and an entity with ComputeChunk(task) is spawned
spawn_ex_chunk_tasks ==
    /\ ~panicked
    /\ pc.at = "spawn_ex_chunk_tasks"
    /\ pc.i <= MaxTasks
    /\ LET c == TaskCoordList[pc.i]
       IN  /\ tasks' = [tasks EXCEPT ![c] = "running"]
           /\ entities' = [entities EXCEPT
                             ![c] = [compute |-> TRUE, chunk |-> 0]]
    /\ pc' = [pc EXCEPT !.i = @ + 1]
    /\ UNCHANGED << chunk_vars, BLOCK_REGISTRY,
                    ITEM_REGISTRY, panicked, app_state,
                    next_state, commands >>

\* the exit systems have run: the state changes
exit_systems_done ==
    /\ ~panicked
    /\ pc.at = "spawn_ex_chunk_tasks"
    /\ pc.i > MaxTasks
    /\ EnterState(Unwrap(next_state))
    /\ UNCHANGED << chunk_vars, BLOCK_REGISTRY,
                    ITEM_REGISTRY, panicked, tasks, entities,
                    commands >>

\* the task of chunk_manager.rs:25-49 on a pool thread: it unwraps the
\* grass block of the registry, builds the chunk and its mesh
chunk_task(c) ==
    /\ tasks[c] = "running"
    /\ tasks' = [tasks EXCEPT
                   ![c] = IF IsSome(get_block_from_registry_by_string(
                                        GrassBlockId))
                          THEN "done"
                          ELSE "failed"]
    /\ UNCHANGED << chunk_vars, BLOCK_REGISTRY,
                    ITEM_REGISTRY, panicked, app_state,
                    next_state, pc, entities, commands >>

\* ComputeChunkQuery that yields only the first entity spawned
ComputeChunkQuery_FirstOnly(ents) ==
    { c \in { TaskCoordList[1] } : ents[c].compute }

\* chunk_manager.rs:62: Query<(Entity, &mut ComputeChunk, &Transform)>, the
\* entities that carry a ComputeChunk
ComputeChunkQuery(ents) == { c \in TaskCoords : ents[c].compute }

\* handle_chunk_tasks starts: its query holds the entities with
\* ComputeChunk
handle_chunk_tasks ==
    /\ ~panicked
    /\ pc = Idle
    /\ app_state = "Finished"
    /\ next_state = None
    /\ pc' = Pc("handle_chunk_tasks", 0, ComputeChunkQuery(entities))
    /\ UNCHANGED << chunk_vars, BLOCK_REGISTRY,
                    ITEM_REGISTRY, panicked, app_state,
                    next_state, tasks, entities, commands >>

\* PollOnceReady of future::block_on(task): it waits for the task
PollOnceReady_BlockOnTask(state) == state # "running"

\* chunk_manager.rs:70: future::block_on(future::poll_once(task)); the
\* future that poll_once returns is ready at its first poll, whatever the
\* state of the task, so block_on returns at once
PollOnceReady(state) == TRUE

\* handle_chunk_tasks: one iteration, future::poll_once on the task of an
\* entity of the query.  Polling a task that failed, or whose output was
\* taken, panics.
poll_once(c) ==
    /\ ~panicked
    /\ pc.at = "handle_chunk_tasks"
    /\ c \in pc.todo
    /\ PollOnceReady(tasks[c])
    /\ pc' = [pc EXCEPT !.todo = @ \ { c }]
    /\ IF tasks[c] = "done"
       THEN /\ tasks' = [tasks EXCEPT ![c] = "taken"]
            /\ commands' = QueueIntegration(commands, c)
            /\ UNCHANGED panicked
       ELSE /\ panicked' = (tasks[c] # "running")
            /\ UNCHANGED << tasks, commands >>
    /\ UNCHANGED << chunk_vars, BLOCK_REGISTRY,
                    ITEM_REGISTRY, app_state, next_state,
                    entities >>

\* handle_chunk_tasks is over and its commands are applied: the entity gets
\* the PbrBundle, the Chunk and the ChunkMesh and loses ComputeChunk
apply_commands ==
    /\ ~panicked
    /\ pc.at = "handle_chunk_tasks"
    /\ pc.todo = { }
    /\ entities' = [c \in TaskCoords |->
                      IF c \in commands
                      THEN [compute |-> FALSE,
                            chunk |-> entities[c].chunk + 1]
                      ELSE entities[c]]
    /\ commands' = { }
    /\ pc' = Idle
    /\ UNCHANGED << chunk_vars, BLOCK_REGISTRY,
                    ITEM_REGISTRY, panicked, app_state,
                    next_state, tasks >>

\* App::new() ... .add_loopless_state(AppState::LoadResources)
InitTasks ==
    /\ NewChunk(<< 0, 0, 0 >>)
    /\ column = << 0, 0, 0 >>
    /\ BLOCK_REGISTRY = << >>
    /\ ITEM_REGISTRY = << >>
    /\ app_state = "LoadResources"
    /\ next_state = None
    /\ pc = Idle
    /\ tasks = [c \in TaskCoords |-> "none"]
    /\ entities = [c \in TaskCoords |-> NoEntity]
    /\ commands = { }

NextTasks ==
    \/ build_texture_atlas
    \/ state_transition
    \/ registry_init_register_item
    \/ registry_init_register
    \/ registry_init
    \/ spawn_ex_chunk_tasks
    \/ exit_systems_done
    \/ \E c \in TaskCoords : chunk_task(c)
    \/ handle_chunk_tasks
    \/ \E c \in TaskCoords : poll_once(c)
    \/ apply_commands

SpecTasks == InitTasks /\ [][NextTasks]_vars

\* the systems of the main thread: the schedule of the app runs them frame
\* after frame
MainThread ==
    \/ build_texture_atlas
    \/ state_transition
    \/ registry_init_register_item
    \/ registry_init_register
    \/ registry_init
    \/ spawn_ex_chunk_tasks
    \/ exit_systems_done
    \/ handle_chunk_tasks
    \/ \E c \in TaskCoords : poll_once(c)
    \/ apply_commands

\* SpecTasks under fair scheduling: the main thread keeps running its
\* systems, and the AsyncComputeTaskPool runs every task it was given
SpecTasksFair ==
    /\ InitTasks
    /\ [][NextTasks]_vars
    /\ WF_vars(MainThread)
    /\ \A c \in TaskCoords : WF_vars(chunk_task(c))

(***************************************************************************)
(* The local id of a block at the ends of the u16 range.  A palette of     *)
(* tens of thousands of entries is not built: lines 91-96 depend on the    *)
(* palette only through the position of the id, which is the length of     *)
(* the palette when a new id is pushed (lines 83-88).                      *)
(***************************************************************************)
\* 0-based palette positions: the first ones, and those around U16_MOD
PalettePositionArgs ==
    0..MaxPositions
    \cup (U16_MOD - MaxPositions)..(U16_MOD + MaxPositions)

\* lines 91-96 of add_block for an id at `position` of the palette
store_local_id(position) ==
    /\ \E stored \in StoreOutcomes(AsLocalId(position)) :
           call' = [op |-> "store_local_id", position |-> position,
                    ret |-> IF stored.panic THEN "panic" ELSE "true",
                    stored |-> stored.id]
    /\ UNCHANGED << is_empty, air_count, ids, blocks, pre, churn, chunk_pos,
                    column, cull, mesh, sched_vars, BLOCK_REGISTRY,
                    ITEM_REGISTRY, panicked >>

InitLocalId == Init

NextLocalId == \E position \in PalettePositionArgs : store_local_id(position)

SpecLocalId == InitLocalId /\ [][NextLocalId]_vars

(***************************************************************************)
(* Identifier parsing: the program parses the id strings of the            *)
(* definition files and of the palette, here any string over IdChars of    *)
(* at most MaxIdLen characters.                                            *)
(***************************************************************************)
\* characters of id strings: allowed ones, the separator, and two that
\* valid_chars does not hold
IdChars == { "b", "1", ".", ":", "B", " " }

IdStrings == UNION { [1..n -> IdChars] : n \in 0..MaxIdLen }

\* Identifier::from_str(str)
call_from_str(str) ==
    /\ call' = [op |-> "from_str", str |-> str, ret |-> from_str(str)]
    /\ UNCHANGED << is_empty, air_count, ids, blocks, pre, churn, chunk_pos,
                    column, cull, mesh, sched_vars, BLOCK_REGISTRY,
                    ITEM_REGISTRY, panicked >>

\* Identifier::from(&str)
call_Identifier_from(str) ==
    /\ call' = [op |-> "from", str |-> str, ret |-> Identifier_from(str)]
    /\ UNCHANGED << is_empty, air_count, ids, blocks, pre, churn, chunk_pos,
                    column, cull, mesh, sched_vars, BLOCK_REGISTRY,
                    ITEM_REGISTRY, panicked >>

\* main.rs:216: Identifier::new("blocky", "grass_block"), the one call of
\* Identifier::new outside from_str
call_Identifier_new ==
    /\ call' = [op |-> "Identifier::new", str |-> GrassBlockId,
                ret |-> Ok(Identifier_new(<< "b" >>, BlockNames[1]))]
    /\ UNCHANGED << is_empty, air_count, ids, blocks, pre, churn, chunk_pos,
                    column, cull, mesh, sched_vars, BLOCK_REGISTRY,
                    ITEM_REGISTRY, panicked >>

InitIdentifier == Init

NextIdentifier ==
    \/ \E str \in IdStrings : call_from_str(str)
    \/ \E str \in IdStrings : call_Identifier_from(str)
    \/ call_Identifier_new

SpecIdentifier == InitIdentifier /\ [][NextIdentifier]_vars

(***************************************************************************)
(* The registries: register_block and register_item are called with the    *)
(* definitions of the data directory, whose id strings may be malformed.   *)
(***************************************************************************)
\* id strings of definition files: "b:1", "1:b", "b1", "::b", "B:b", "b:"
RegistryDefIds ==
    { << "b", ":", "1" >>, << "1", ":", "b" >>, << "b", "1" >>,
      << ":", ":", "b" >>, << "B", ":", "b" >>, << "b", ":" >> }

\* a BlockDefinition; textured says whether BLOCK_TEXTURE_COORDS holds the
\* rectangle of each of its six texture paths
BlockDefinition(id, textured) == [id |-> id, textured |-> textured]

BlockDefinitions ==
    { BlockDefinition(id, textured) :
        id \in RegistryDefIds, textured \in BOOLEAN }

ItemDefinitionArgs ==
    { ItemDefinition(id, stack_size) :
        id \in RegistryDefIds, stack_size \in { 1, 64 } }

\* the line that register_block and register_item print
Printed(registry, parsed) ==
    IF ~parsed.ok
    THEN parsed.error
    ELSE IF as_string(parsed.id) \in DOMAIN registry
         THEN "already registered; overwriting!"
         ELSE "Registered"

\* registry::register_block(block_def): the six
\* get_block_texture_coords(..).unwrap() panic when a rectangle is missing
call_register_block(block_def) ==
    /\ ~panicked
    /\ LET parsed == from_str(block_def.id)
       IN  IF parsed.ok /\ ~block_def.textured
           THEN /\ panicked' = TRUE
                /\ call' = [op |-> "register_block", def |-> block_def,
                            ret |-> "panic"]
                /\ UNCHANGED BLOCK_REGISTRY
           ELSE /\ BLOCK_REGISTRY' =
                       register_block(BLOCK_REGISTRY, block_def.id)
                /\ call' = [op |-> "register_block", def |-> block_def,
                            ret |-> Printed(BLOCK_REGISTRY, parsed)]
                /\ UNCHANGED panicked
    /\ UNCHANGED << is_empty, air_count, ids, blocks, pre, churn, chunk_pos,
                    column, cull, mesh, sched_vars, ITEM_REGISTRY >>

\* registry::register_item(item_def)
call_register_item(item_def) ==
    /\ ~panicked
    /\ ITEM_REGISTRY' = register_item(ITEM_REGISTRY, item_def)
    /\ call' = [op |-> "register_item", def |-> item_def,
                ret |-> Printed(ITEM_REGISTRY, from_str(item_def.id))]
    /\ UNCHANGED << is_empty, air_count, ids, blocks, pre, churn, chunk_pos,
                    column, cull, mesh, sched_vars, BLOCK_REGISTRY,
                    panicked >>

\* registry_init starts: both registries are empty
InitRegistry ==
    /\ NewChunk(<< 0, 0, 0 >>)
    /\ column = << 0, 0, 0 >>
    /\ BLOCK_REGISTRY = << >>
    /\ ITEM_REGISTRY = << >>
    /\ app_state = "Registry"
    /\ next_state = None
    /\ pc = Pc("registry_init", 1, { })
    /\ tasks = [c \in TaskCoords |-> "none"]
    /\ entities = [c \in TaskCoords |-> NoEntity]
    /\ commands = { }

NextRegistry ==
    \/ \E item_def \in ItemDefinitionArgs : call_register_item(item_def)
    \/ \E block_def \in BlockDefinitions : call_register_block(block_def)

SpecRegistry == InitRegistry /\ [][NextRegistry]_vars

(***************************************************************************)
(* Properties                                                              *)
(***************************************************************************)
\* the last call was a write of Some(block) through add_block
IsSomeWrite == call.op = "add_block" /\ IsSome(call.block)

\* the last call was add_block(.., None) or remove_block
IsRemoval ==
    \/ call.op = "remove_block"
    \/ call.op = "add_block" /\ call.block = None

CallInBounds == InBounds(call.x, call.y, call.z)

CallPos == pos_as_index(call.x, call.y, call.z)

\* C1: after add_block(p, Some(b)) with p in bounds and b registered, the
\* call has returned true, get_block(p) is the block with b's identifier
\* and has_block_at(p) is true.
C1_AddThenGet ==
    (/\ IsSomeWrite
     /\ CallInBounds
     /\ get_block_from_registry_by_string(
            as_string(Unwrap(call.block).id)) = call.block)
    => /\ call.ret = "true"
       /\ IsSome(get_block(call.x, call.y, call.z))
       /\ Unwrap(get_block(call.x, call.y, call.z)).id
              = Unwrap(call.block).id
       /\ has_block_at(call.x, call.y, call.z)

\* an in-bounds Some-write over a voxel that held another block type
C1_Witness ==
    /\ IsSomeWrite
    /\ CallInBounds
    /\ call.ret = "true"
    /\ VoxelAt(pre.blocks, CallPos) # 0
    /\ VoxelAt(pre.blocks, CallPos) # VoxelAt(blocks, CallPos)

\* C2: after add_block(p, None) / remove_block(p) with p in bounds, whatever
\* p held, the call has completed, get_block(p) is None and has_block_at(p)
\* is false.
C2_RemoveThenGet ==
    (IsRemoval /\ CallInBounds)
    => /\ call.ret = "true"
       /\ get_block(call.x, call.y, call.z) = None
       /\ ~has_block_at(call.x, call.y, call.z)

\* C3: air_count is the number of voxels whose local id is 0, and a
\* Some-write over a voxel that was not air leaves air_count as it was.
C3_AirCount ==
    ~panicked
    => /\ air_count = ZeroCount(blocks)
       /\ (IsSomeWrite /\ call.ret = "true"
           /\ VoxelAt(pre.blocks, CallPos) # 0)
          => air_count = pre.air_count

\* C4: every non-zero voxel v refers to an occupied palette slot: v - 1 is
\* an index of ids and ids[v - 1] is Some.
C4_VoxelsResolve ==
    ~panicked
    => \A i \in DOMAIN blocks :
           /\ blocks[i] \in 1..Len(ids)
           /\ IsSome(ids[blocks[i]])

\* C5: a palette slot ids[i] is None if and only if no voxel holds the
\* local id i + 1.
C5_SlotNoneIffUnused ==
    ~panicked
    => \A v \in 1..Len(ids) :
           (ids[v] = None) <=> ~(\E i \in DOMAIN blocks : blocks[i] = v)

\* C6: a removal at a solid in-bounds voxel of local id v completes; when it
\* cleared the last voxel of v, exactly slot v - 1 of the palette became
\* None; when another voxel of v remains, the palette is unchanged.
C6_RemovalFreesSlot ==
    (/\ IsRemoval
     /\ CallInBounds
     /\ VoxelAt(pre.blocks, CallPos) # 0)
    => LET v == VoxelAt(pre.blocks, CallPos)
       IN  /\ call.ret = "true"
           /\ VoxelAt(blocks, CallPos) = 0
           /\ IF \E i \in DOMAIN blocks : blocks[i] = v
              THEN ids = pre.ids
              ELSE ids = [pre.ids EXCEPT ![v] = None]

\* C7 (as stated): after placing A at a voxel, removing it and placing a
\* different B, the palette is no longer than it was just before the
\* removal.
C7_NoGrowthAfterChurn ==
    churn.stage = 3 => Len(ids) <= churn.len

\* C7 (amended): the same, when the removal cleared the last voxel that
\* held A's local id, so that it freed a palette slot.
C7_NoGrowthAfterFreeingChurn ==
    (churn.stage = 3 /\ churn.freed) => Len(ids) <= churn.len

\* place A, remove its last voxel, place a B the palette did not hold
C7_Witness ==
    /\ churn.stage = 3
    /\ churn.freed
    /\ ~PaletteContains(pre.ids, as_string(Unwrap(call.block).id))
    /\ Len(ids) = churn.len

\* C8: add_block(p, Some(b)) that stores b: if the palette held b's
\* identifier it is unchanged and that slot's index + 1 is written;
\* otherwise the lowest None slot is filled; only without a None slot is a
\* slot appended.  The palette grows by at most 1.
C8_PalettePolicy ==
    (IsSomeWrite /\ call.ret = "true")
    => LET s == Some(as_string(Unwrap(call.block).id))
           written == VoxelAt(blocks, CallPos)
           Free == { i \in 1..Len(pre.ids) : pre.ids[i] = None }
       IN  /\ Len(ids) <= Len(pre.ids) + 1
           /\ IF \E i \in 1..Len(pre.ids) : pre.ids[i] = s
              THEN /\ ids = pre.ids
                   /\ written \in 1..Len(ids)
                   /\ pre.ids[written] = s
              ELSE IF Free # { }
                   THEN \E k \in Free :
                            /\ \A j \in Free : k <= j
                            /\ ids = [pre.ids EXCEPT ![k] = s]
                            /\ written = k
                   ELSE /\ ids = pre.ids \o << s >>
                        /\ written = Len(ids)

\* a Some-write of an identifier the palette did not hold, which took a
\* freed slot
C8_Witness ==
    /\ IsSomeWrite
    /\ call.ret = "true"
    /\ ~PaletteContains(pre.ids, as_string(Unwrap(call.block).id))
    /\ \E k \in 1..Len(pre.ids) : pre.ids[k] = None
    /\ Len(ids) = Len(pre.ids)

\* C9: add_block at a coordinate with a component outside [0, 16) returns
\* false without panicking and leaves voxels, palette, air_count and
\* is_empty unchanged.
C9_OutOfRangeWriteRejected ==
    (call.op \in { "add_block", "remove_block" } /\ ~CallInBounds)
    => /\ call.ret = "false"
       /\ Snapshot = pre

\* C10: at a coordinate with a component outside [0, 16), in any chunk
\* state, has_block_at returns false, get_block returns None and
\* get_local_block_id returns 0.
C10_OutOfRangeReads ==
    ~panicked
    => \A p \in OutsidePositions :
           /\ ~has_block_at(p[1], p[2], p[3])
           /\ get_block(p[1], p[2], p[3]) = None
           /\ get_local_block_id(p[1], p[2], p[3]) = 0


\* C11: add_block(p, None) on an in-bounds voxel that is already air
\* returns true and leaves voxels, palette and air_count unchanged.
C11_NoneOverAirIsNoOp ==
    (/\ IsRemoval
     /\ CallInBounds
     /\ VoxelAt(pre.blocks, CallPos) = 0)
    => /\ call.ret = "true"
       /\ blocks = pre.blocks
       /\ ids = pre.ids
       /\ air_count = pre.air_count

\* a None-write over an air voxel of a chunk that holds a block elsewhere
C11_Witness ==
    /\ call.op = "add_block"
    /\ call.block = None
    /\ CallInBounds
    /\ VoxelAt(pre.blocks, CallPos) = 0
    /\ call.ret = "true"
    /\ DOMAIN blocks # { }

\* C12: after any sequence of add_block/remove_block calls (each of which
\* returned), is_empty() is true if and only if air_count is 16^3 = 4096.
C12_IsEmptyIffAllAir ==
    ~panicked => (is_empty <=> (air_count = CHUNK_VOLUME))

\* a removal that raised air_count on a chunk that stays non-empty
C12_Witness ==
    /\ IsRemoval
    /\ call.ret = "true"
    /\ air_count = pre.air_count + 1
    /\ air_count < CHUNK_VOLUME
    /\ ~is_empty

\* the direction of each bit of the cull code
CullDirections ==
    { [bit |-> VoxelCullCode.U, step |-> << 0, 1, 0 >>],
      [bit |-> VoxelCullCode.D, step |-> << 0, -1, 0 >>],
      [bit |-> VoxelCullCode.R, step |-> << -1, 0, 0 >>],
      [bit |-> VoxelCullCode.L, step |-> << 1, 0, 0 >>],
      [bit |-> VoxelCullCode.F, step |-> << 0, 0, -1 >>],
      [bit |-> VoxelCullCode.B, step |-> << 0, 0, 1 >>] }

\* the last call was cull_neighbors
IsCull == IsSome(cull)

CullPos == << Unwrap(cull).x, Unwrap(cull).y, Unwrap(cull).z >>

CullCode == Unwrap(cull).code

\* C13: for an in-bounds voxel and each direction d, cull_neighbors sets
\* the bit of d iff the neighbour one step along d is outside [0,16)^3, or
\* is in bounds and has_block_at(neighbour) is false, with U=+Y, D=-Y,
\* R=-X, L=+X, F=-Z, B=+Z; the code is at most 63.
C13_CullBits ==
    IsCull
    => /\ CullCode \in 0..63
       /\ \A d \in CullDirections :
              LET n == << CullPos[1] + d.step[1], CullPos[2] + d.step[2],
                          CullPos[3] + d.step[3] >>
              IN  HasBit(CullCode, d.bit)
                  <=> \/ ~InBounds(n[1], n[2], n[3])
                      \/ ~has_block_at(n[1], n[2], n[3])

\* cull_neighbors on a voxel with a neighbour outside the chunk, a
\* neighbour that holds a block and a neighbour that is air
C13_Witness ==
    /\ IsCull
    /\ \E d \in CullDirections :
           ~InBounds(CullPos[1] + d.step[1], CullPos[2] + d.step[2],
                     CullPos[3] + d.step[3])
    /\ CullCode \notin { 0, 63 }
    /\ \E d \in CullDirections : ~HasBit(CullCode, d.bit)

\* the chunk's only solid voxels are the column (x, 0, z), (x, 1, z)
OnlyColumnSolid ==
    /\ column[2] = 0
    /\ DOMAIN blocks = { pos_as_index(v[1], v[2], v[3]) : v \in ColumnVoxels }

\* C14: in a chunk whose only solid voxels are (x, 0, z) and (x, 1, z),
\* cull_neighbors of the lower voxel has every bit but U set and
\* cull_neighbors of the upper voxel has every bit but D set.
C14_StackedPair ==
    (IsCull /\ OnlyColumnSolid)
    => /\ CullPos = column => CullCode = 63 - VoxelCullCode.U
       /\ CullPos = << column[1], 1, column[3] >>
          => CullCode = 63 - VoxelCullCode.D

\* cull_neighbors on the upper voxel of a stacked pair away from x = z = 0
C14_Witness ==
    /\ IsCull
    /\ OnlyColumnSolid
    /\ column[1] > 0
    /\ column[3] > 0
    /\ CullPos = << column[1], 1, column[3] >>

\* C15: for a solid voxel with a coordinate equal to 0 or 15,
\* cull_neighbors sets the bit of the outward direction whatever the chunk
\* holds, and every voxel it reads is a voxel of the chunk.
C15_BoundaryFacesExposed ==
    (IsCull /\ has_block_at(CullPos[1], CullPos[2], CullPos[3]))
    => /\ \A d \in CullDirections :
              ~InBounds(CullPos[1] + d.step[1], CullPos[2] + d.step[2],
                        CullPos[3] + d.step[3])
              => /\ HasBit(CullCode, d.bit)
                 /\ << CullPos[1] + d.step[1], CullPos[2] + d.step[2],
                       CullPos[3] + d.step[3] >> \notin Unwrap(cull).reads
       /\ \A r \in Unwrap(cull).reads :
              /\ InBounds(r[1], r[2], r[3])
              /\ pos_as_index(r[1], r[2], r[3]) < BlocksLen

\* cull_neighbors on a solid voxel with a coordinate equal to 15, in a
\* chunk that holds another block
C15_Witness ==
    /\ IsCull
    /\ has_block_at(CullPos[1], CullPos[2], CullPos[3])
    /\ \E i \in 1..3 : CullPos[i] = CHUNK_SIZE - 1
    /\ Cardinality(DOMAIN blocks) > 1


\* the last call was build_chunk_mesh
IsBuild == call.op = "build_chunk_mesh"

\* the voxel at `index` resolves to a registered block type
Resolves(index) ==
    LET p == index_as_pos(index)
    IN  IsSome(get_block(p[1], p[2], p[3]))

\* the number of bits set in the cull code of the voxel at `index`
ExposedCount(index) ==
    LET p == index_as_pos(index)
    IN  Cardinality({ d \in CullDirections :
                        HasBit(cull_neighbors(p[1], p[2], p[3]), d.bit) })

RECURSIVE TotalExposed(_)
TotalExposed(indexes) ==
    IF indexes = { }
    THEN 0
    ELSE LET i == CHOOSE i \in indexes : TRUE
         IN  ExposedCount(i) + TotalExposed(indexes \ { i })

\* C16: for a chunk whose solid voxels all resolve in the registry, with k
\* the total number of set bits of cull_neighbors over the solid voxels,
\* build_chunk_mesh outputs 4k positions, 4k normals, 4k UVs and 6k
\* indices, and the j-th face has the indices 4j + {0, 1, 2, 2, 3, 0}.
C16_MeshCounts ==
    (IsBuild /\ \A i \in DOMAIN blocks : Resolves(i))
    => /\ IsSome(mesh)
       /\ LET k == TotalExposed(DOMAIN blocks)
              m == Unwrap(mesh)
          IN  /\ Len(m.positions) = 4 * k
              /\ Len(m.normals) = 4 * k
              /\ Len(m.uvs) = 4 * k
              /\ Len(m.indices) = 6 * k
              /\ \A j \in 0..(k - 1) :
                     \A n \in 1..6 :
                         m.indices[6 * j + n]
                             = 4 * j + << 0, 1, 2, 2, 3, 0 >>[n]

\* the mesh of a chunk away from the world origin with two solid voxels of
\* different types that both resolve
C16_Witness ==
    /\ IsBuild
    /\ IsSome(mesh)
    /\ \A i \in DOMAIN blocks : Resolves(i)
    /\ \E i, j \in DOMAIN blocks : blocks[i] # blocks[j]
    /\ chunk_pos # << 0, 0, 0 >>

\* the number of faces of the mesh that were built for the voxel at `index`
FacesOf(index) ==
    Cardinality({ j \in 1..Len(Unwrap(mesh).faces) :
                    Unwrap(mesh).faces[j].voxel = index_as_pos(index) })

C18_UnitNormals ==
    IsSome(mesh)
    => LET m == Unwrap(mesh)
       IN  \A j \in 1..Len(m.faces) :
               \A d \in CullDirections :
                   d.bit = m.faces[j].bit
                   => \A i \in 1..4 :
                          m.normals[4 * (j - 1) + i]
                              = << 2 * d.step[1], 2 * d.step[2],
                                   2 * d.step[3] >>


\* C19: of the N tasks that spawn_ex_chunk_tasks spawns, with the tasks
\* completing in any order between the polls of handle_chunk_tasks, every
\* result is integrated exactly once: no entity gets a Chunk twice, no
\* output that was taken from a task is dropped, and once no entity
\* carries ComputeChunk any more all N coordinates have their Chunk.
C19_EachResultIntegratedOnce ==
    /\ ~panicked
    /\ \A c \in TaskCoords :
           /\ tasks[c] # "failed"
           /\ entities[c].chunk <= 1
           /\ entities[c].chunk = 1
              => (tasks[c] = "taken" /\ ~entities[c].compute)
           /\ tasks[c] = "taken"
              => (c \in commands \/ entities[c].chunk = 1)
           /\ tasks[c] # "none"
              => (entities[c].compute \/ entities[c].chunk = 1)
    /\ (/\ app_state = "Finished"
        /\ pc = Idle
        /\ \A c \in TaskCoords : ~entities[c].compute)
       => \A c \in TaskCoords : entities[c].chunk = 1

\* all N results are integrated
C19_Witness ==
    /\ app_state = "Finished"
    /\ \A c \in TaskCoords : entities[c].chunk = 1 /\ tasks[c] = "taken"

\* C20: no generation task is spawned or runs before the block registry is
\* fully populated: while any task exists registry_init has finished and
\* the registry holds every block definition, no task fails to find its
\* block, and the registry is not written while a task is pending.
C20_RegistryBeforeTasks ==
    /\ [](\A c \in TaskCoords :
              tasks[c] # "none"
              => /\ BLOCK_REGISTRY = RegistryOf(RegisteredBlocks)
                 /\ pc.at # "registry_init"
                 /\ app_state # "LoadResources"
                 /\ tasks[c] # "failed")
    /\ [][(\E c \in TaskCoords : tasks[c] \in { "running", "done" })
          => BLOCK_REGISTRY' = BLOCK_REGISTRY]_vars

\* spawn_ex_chunk_tasks is still spawning while an earlier task has
\* finished and another is running
C20_Witness ==
    /\ pc.at = "spawn_ex_chunk_tasks"
    /\ \E c \in TaskCoords : tasks[c] = "none"
    /\ \E c \in TaskCoords : tasks[c] = "running"
    /\ \E c \in TaskCoords : tasks[c] = "done"
    /\ BLOCK_REGISTRY = RegistryOf(RegisteredBlocks)

\* the threads that can touch the Chunk of coordinate c: the pool thread of
\* its task while the async block that owns the Chunk runs
\* (chunk_manager.rs:25-49), the main thread once poll_once has handed the
\* Chunk out (chunk_manager.rs:70-86)
Accessors(c) ==
    (IF tasks[c] = "running" THEN { << "task", c >> } ELSE { })
    \cup (IF c \in commands \/ entities[c].chunk > 0
          THEN { << "main" >> }
          ELSE { })

C22_EventuallyIntegrated ==
    /\ \A c \in TaskCoords :
           entities[c].compute
           ~> (~entities[c].compute /\ entities[c].chunk = 1)
    /\ [][\A c \in TaskCoords :
              (entities[c].compute /\ ~entities'[c].compute)
              => (tasks[c] = "taken" /\ entities'[c].chunk = 1)]_vars

\* one unit is integrated while another, spawned with it, is still running
C22_Witness ==
    /\ \E c \in TaskCoords : ~entities[c].compute /\ entities[c].chunk = 1
    /\ \E c \in TaskCoords : entities[c].compute /\ tasks[c] = "running"

\* C23: a pass of handle_chunk_tasks never waits on an unfinished task.
\* Inside a pass the poll of every entity left in the query can be taken at
\* once, whatever the state of its task, and the pass can end when none is
\* left; the query of a pass holds every entity with a ComputeChunk; the
\* poll of a complete task queues its integration and the poll of a pending
\* task changes nothing of it; the pass ends only when every entity was
\* polled, and then integrates everything it queued.
C23_PassNeverWaits ==
    /\ []((~panicked /\ pc.at = "handle_chunk_tasks")
          => /\ \A c \in pc.todo : ENABLED poll_once(c)
             /\ pc.todo = { } => ENABLED apply_commands)
    /\ [][(pc.at # "handle_chunk_tasks" /\ pc'.at = "handle_chunk_tasks")
          => pc'.todo = { c \in TaskCoords : entities[c].compute }]_vars
    /\ [][\A c \in TaskCoords :
              (pc.at = "handle_chunk_tasks" /\ c \in pc.todo
                  /\ c \notin pc'.todo)
              => /\ pc'.at = "handle_chunk_tasks"
                 /\ pc'.todo = pc.todo \ { c }
                 /\ tasks[c] = "done"
                    => (c \in commands' /\ tasks'[c] = "taken")
                 /\ tasks[c] = "running"
                    => /\ tasks'[c] = "running"
                       /\ c \notin commands'
                       /\ UNCHANGED << entities, panicked >>]_vars
    /\ [][(pc.at = "handle_chunk_tasks" /\ pc'.at # "handle_chunk_tasks")
          => /\ pc.todo = { }
             /\ \A c \in TaskCoords :
                    IF c \in commands
                    THEN ~entities'[c].compute /\ entities'[c].chunk = 1
                    ELSE entities'[c] = entities[c]]_vars

\* a pass has polled every entity: it took the output of a complete task
\* and left a task that is still running
C23_Witness ==
    /\ pc.at = "handle_chunk_tasks"
    /\ pc.todo = { }
    /\ commands # { }
    /\ \E c \in TaskCoords \ commands :
           entities[c].compute /\ tasks[c] = "running"

\* the last call parsed an id string
IsParse == call.op \in { "from_str", "from" }

\* the positions of the ':' in the parsed string
Colons == { i \in 1..Len(call.str) : call.str[i] = ":" }

\* the character class [a-z0-9_.-]
IdentifierChars ==
    { "a", "b", "c", "d", "e", "f", "g", "h", "i", "j", "k", "l", "m" }
    \cup { "n", "o", "p", "q", "r", "s", "t", "u", "v", "w", "x", "y", "z" }
    \cup { "0", "1", "2", "3", "4", "5", "6", "7", "8", "9" }
    \cup { "_", ".", "-" }

AllIdentifierChars(str) == \A i \in 1..Len(str) : str[i] \in IdentifierChars

\* C24: from_str(s) fails with MissingColon when s holds no ':', with
\* TooManyColons when it holds two or more, with InvalidCharacters when it
\* holds exactly one and a part has a character outside [a-z0-9_.-], and
\* is Ok with the two parts as namespace and name in every other case.
C24_FromStrResult ==
    IsParse
    => IF Colons = { }
       THEN call.ret = Err("MissingColon")
       ELSE IF Cardinality(Colons) >= 2
            THEN call.ret = Err("TooManyColons")
            ELSE LET k == CHOOSE i \in Colons : TRUE
                     namespace == SubSeq(call.str, 1, k - 1)
                     name == SubSeq(call.str, k + 1, Len(call.str))
                 IN  IF /\ AllIdentifierChars(namespace)
                        /\ AllIdentifierChars(name)
                     THEN call.ret = Ok(Identifier_new(namespace, name))
                     ELSE call.ret = Err("InvalidCharacters")

\* a string with one ':' and a bad character after it was rejected
C24_Witness ==
    /\ call.op = "from_str"
    /\ Cardinality(Colons) = 1
    /\ call.str[Len(call.str)] = "B"
    /\ call.ret = Err("InvalidCharacters")

\* C25: every Identifier that Identifier::new, from or from_str returns
\* has a non-empty namespace and a non-empty name, both made of characters
\* of [a-z0-9_.-] only, and its as_string() holds exactly one ':'.
C25_IdentifiersWellFormed ==
    (call.op \in { "Identifier::new", "from_str", "from" } /\ call.ret.ok)
    => LET id == call.ret.id
       IN  /\ id.namespace # << >>
           /\ id.name # << >>
           /\ AllIdentifierChars(id.namespace)
           /\ AllIdentifierChars(id.name)
           /\ Cardinality({ i \in 1..Len(as_string(id)) :
                              as_string(id)[i] = ":" }) = 1

\* str has the form namespace:name of a valid identifier: one ':', both
\* parts non-empty and of characters of [a-z0-9_.-] only
ValidIdentifier(str) ==
    LET colons == { i \in 1..Len(str) : str[i] = ":" }
    IN  /\ Cardinality(colons) = 1
        /\ \A k \in colons :
               /\ 1 < k
               /\ k < Len(str)
               /\ AllIdentifierChars(SubSeq(str, 1, k - 1))
               /\ AllIdentifierChars(SubSeq(str, k + 1, Len(str)))

\* C26: register_block and register_item given a definition whose id is
\* not a valid identifier report the error, do not panic and leave both
\* registries as they were.
C26_BadIdSkipped ==
    [][(call'.op \in { "register_block", "register_item" }
           /\ ~ValidIdentifier(call'.def.id))
       => /\ UNCHANGED << BLOCK_REGISTRY, ITEM_REGISTRY >>
          /\ ~panicked'
          /\ call'.ret \in { "MissingColon", "TooManyColons",
                             "InvalidCharacters" }]_vars

\* C27: when the id of a new block type is pushed to a palette that
\* already holds as many entries as a local id can address (U16_MOD - 1
\* or more, so that its 0-based position is U16_MOD - 1 or more), the call
\* is a hard error; and the local id that a call stores is never other
\* than the position of the id plus one.
C27_PaletteFullIsHardError ==
    call.op = "store_local_id"
    => /\ call.position >= U16_MOD - 1 => call.ret = "panic"
       /\ call.ret = "true" => call.stored = call.position + 1

\* the id string that the voxel at `index` resolves to through `palette`:
\* None for air, for a cleared slot and for a local id past the palette
IdentityAt(palette, voxels, index) ==
    LET block_id == VoxelAt(voxels, index)
    IN  IF block_id > 0 /\ block_id <= Len(palette)
        THEN palette[block_id]
        ELSE None

\* C28: add_block or remove_block at an in-bounds position p leaves the
\* block identity of every other position unchanged: the id string that
\* the local id of q # p resolves to is the same before and after the call.
C28_OtherPositionsKeepIdentity ==
    (call.op \in { "add_block", "remove_block" } /\ CallInBounds)
    => \A index \in ((DOMAIN blocks) \cup (DOMAIN pre.blocks)) \ { CallPos } :
           IdentityAt(ids, blocks, index)
               = IdentityAt(pre.ids, pre.blocks, index)

\* C29: after any sequence of add_block/remove_block calls (each of which
\* returned), is_empty() is true if and only if the chunk holds no solid
\* voxel: every voxel's local id is 0.
C29_IsEmptyIffNoSolidVoxel ==
    ~panicked => (is_empty <=> (\A i \in DOMAIN blocks : blocks[i] = 0))

\* the voxel at position p contributes geometry to the mesh
Drawn(p) ==
    /\ InBounds(p[1], p[2], p[3])
    /\ pos_as_index(p[1], p[2], p[3]) \in DOMAIN blocks
    /\ Resolves(pos_as_index(p[1], p[2], p[3]))

\* C30: in the mesh that build_chunk_mesh returns, for every pair of
\* face-adjacent positions of the chunk of which one voxel is drawn and
\* the other is not (it is air, or solid and skipped as unresolvable), the
\* face of the drawn voxel towards the other position is emitted.
C30_UndrawnNeverCulls ==
    (IsBuild /\ IsSome(mesh))
    => \A index \in DOMAIN blocks :
           \A d \in CullDirections :
               LET p == index_as_pos(index)
                   q == << p[1] + d.step[1], p[2] + d.step[2],
                           p[3] + d.step[3] >>
               IN  (/\ Drawn(p)
                    /\ \A k \in 1..3 : q[k] \in 0..(CHUNK_SIZE - 1)
                    /\ ~Drawn(q))
                   => \E j \in 1..Len(Unwrap(mesh).faces) :
                          /\ Unwrap(mesh).faces[j].voxel = p
                          /\ Unwrap(mesh).faces[j].bit = d.bit

====
